---- MODULE Spec2Model ----
(***************************************************************************)
(* A model of the ZerodhaWise analytics engine: RiskAnalyzer (risk.py),    *)
(* PerformanceAnalyzer (performance.py) and PortfolioAnalyzer.analyze_-    *)
(* portfolio (portfolio.py).  The state is what a caller holds between     *)
(* calls: the portfolio mapping with its holdings list, the                 *)
(* pandas DataFrame of historical values, and the outcome of the last      *)
(* call (a returned mapping or a raised exception).                        *)
(*                                                                         *)
(* Numbers.  A float is modelled as an exact fraction [num, den] in lowest *)
(* terms with den > 0.  numpy/pandas arithmetic never raises: den = 0      *)
(* encodes its special values, NaN as 0/0 and +-inf as +-1/0.  Python      *)
(* float arithmetic (risk.py, portfolio.py) raises ZeroDivisionError on a  *)
(* zero divisor; that is modelled by an explicit exception outcome.        *)
(***************************************************************************)
EXTENDS Integers, Sequences, FiniteSets

VARIABLES portfolio, portfolio_data, caller, result

vars == <<portfolio, portfolio_data, caller, result>>

(***************************************************************************)
(* Bounds of the model: the longest holdings list and the longest series.  *)
(* The values they hold are drawn from the small sets MarketValues,        *)
(* Quantities, ClosePrices, Pnls, Sectors and SeriesValues below.          *)
(***************************************************************************)
MaxHoldings == 3
MaxLen == 3

(***************************************************************************)
(* Exact fractions with numpy's special values.                            *)
(***************************************************************************)
Abs(x) == IF x < 0 THEN -x ELSE x

Sgn(x) == IF x < 0 THEN -1 ELSE IF x > 0 THEN 1 ELSE 0

RECURSIVE GCD(_, _)
GCD(a, b) == IF b = 0 THEN a ELSE GCD(b, a % b)

Mk(n, d) ==
    IF d = 0 THEN [num |-> Sgn(n), den |-> 0]
    ELSE LET g == GCD(Abs(n), Abs(d))
             s == IF d < 0 THEN -1 ELSE 1
         IN  [num |-> (s * n) \div g, den |-> (s * d) \div g]

Fin(n) == [num |-> n, den |-> 1]

NaN == [num |-> 0, den |-> 0]

IsNaN(x) == x.den = 0 /\ x.num = 0

IsInf(x) == x.den = 0 /\ x.num # 0

IsFinite(x) == x.den > 0

\* IEEE addition: NaN absorbs, inf + (-inf) = NaN.
FAdd(a, b) ==
    IF IsNaN(a) \/ IsNaN(b) THEN NaN
    ELSE IF IsInf(a) /\ IsInf(b) THEN (IF a.num = b.num THEN a ELSE NaN)
    ELSE IF IsInf(a) THEN a
    ELSE IF IsInf(b) THEN b
    ELSE LET l == (a.den \div GCD(a.den, b.den)) * b.den
         IN  Mk(a.num * (l \div a.den) + b.num * (l \div b.den), l)

FNeg(a) == [num |-> -a.num, den |-> a.den]

FSub(a, b) == FAdd(a, FNeg(b))

\* IEEE multiplication: 0 * inf = NaN.
FMul(a, b) ==
    IF IsNaN(a) \/ IsNaN(b) THEN NaN
    ELSE IF IsInf(a) \/ IsInf(b) THEN Mk(Sgn(a.num) * Sgn(b.num), 0)
    ELSE Mk(a.num * b.num, a.den * b.den)

\* numpy division: x/0 = +-inf, 0/0 = NaN, never an exception.
FDiv(a, b) ==
    IF IsNaN(a) \/ IsNaN(b) THEN NaN
    ELSE IF IsInf(a) THEN (IF IsInf(b) THEN NaN
                           ELSE Mk(a.num * (IF b.num < 0 THEN -1 ELSE 1), 0))
    ELSE IF IsInf(b) THEN Fin(0)
    ELSE IF b.num = 0 THEN Mk(a.num, 0)
    ELSE Mk(a.num * b.den, a.den * b.num)

\* Comparisons are false whenever an operand is NaN, as in IEEE.
FLt(a, b) ==
    /\ ~IsNaN(a) /\ ~IsNaN(b)
    /\ IF IsInf(a) \/ IsInf(b)
       THEN (IF IsInf(a) THEN a.num ELSE 0) < (IF IsInf(b) THEN b.num ELSE 0)
       ELSE a.num * b.den < b.num * a.den

FEq(a, b) == ~IsNaN(a) /\ ~IsNaN(b) /\ a = b

FLe(a, b) == FLt(a, b) \/ FEq(a, b)

\* Python's min(a, b) and max(a, b): the first argument unless the second
\* compares strictly smaller (larger).
PyMin(a, b) == IF FLt(b, a) THEN b ELSE a

PyMax(a, b) == IF FLt(a, b) THEN b ELSE a

RECURSIVE SumSeq(_)
SumSeq(s) == IF s = <<>> THEN 0 ELSE Head(s) + SumSeq(Tail(s))

\* The exact sum of a sequence of fractions, added up by halves: the order
\* does not change an exact sum, and the evaluation stays shallow on the
\* long series.
RECURSIVE FSumSeq(_)
FSumSeq(s) ==
    IF s = <<>> THEN Fin(0)
    ELSE IF Len(s) = 1 THEN FAdd(s[1], Fin(0))
    ELSE LET half == Len(s) \div 2
         IN  FAdd(FSumSeq(SubSeq(s, 1, half)),
                  FSumSeq(SubSeq(s, half + 1, Len(s))))

\* Outcomes of a call: a returned value or a raised exception.
Return(v) == [exc |-> "None", ret |-> v]

Raise(e) == [exc |-> e, ret |-> <<>>]


EmptyDict == <<>>

(***************************************************************************)
(* Holdings.  A holding is a Python dict; `keys` is the set of its         *)
(* optional keys that are present (tradingsymbol and pnl always are).  A   *)
(* field whose key is absent holds 0 / "" and is never read by the model   *)
(* without the key test the code makes.                                    *)
(***************************************************************************)
Holding(sym, ks, mv, q, cp, p, sec) ==
    [tradingsymbol |-> sym, keys |-> ks, market_value |-> mv, quantity |-> q,
     close_price |-> cp, pnl |-> p, sector |-> sec]

MarketValues == {-1, 0, 1, 2}

Quantities == {2}

ClosePrices == {1}

Pnls == {-1, 1}

Sectors == {"IT", "Banking"}

\* The holdings a snapshot is drawn from: a plain holding with a market
\* value (possibly zero or negative), one that carries quantity and
\* close_price instead, one with a sector, one with a profit or loss.
HoldingShapes ==
    {Holding(0, {"market_value"}, v, 0, 0, 0, "") : v \in MarketValues}
    \cup {Holding(0, {"quantity", "close_price"}, 0, q, cp, 0, "") :
            q \in Quantities, cp \in ClosePrices}
    \cup {Holding(0, {"market_value", "sector"}, 1, 0, 0, 0, sec) : sec \in Sectors}
    \cup {Holding(0, {"market_value"}, 1, 0, 0, p, "") : p \in Pnls}

\* Symbols are unique within a snapshot: the i-th holding has symbol i.
HoldingLists ==
    UNION {{[i \in 1 .. n |-> [f[i] EXCEPT !.tradingsymbol = i]] :
              f \in [1 .. n -> HoldingShapes]} : n \in 0 .. MaxHoldings}

(***************************************************************************)
(* risk.py: RiskAnalyzer                                                   *)
(***************************************************************************)
_calculate_market_value(holding) ==
    IF "market_value" \in holding.keys
    THEN holding.market_value
    ELSE holding.quantity * holding.close_price

\* sum(self._calculate_market_value(h) for h in holdings)
RECURSIVE total_market_value(_)
total_market_value(hs) ==
    IF hs = <<>> THEN 0
    ELSE _calculate_market_value(Head(hs)) + total_market_value(Tail(hs))

\* sum(float(h['pnl']) for h in holdings)
RECURSIVE total_pnl_of(_)
total_pnl_of(hs) ==
    IF hs = <<>> THEN 0 ELSE Head(hs).pnl + total_pnl_of(Tail(hs))

\* sorted(holdings, key=market value, reverse=True): a stable sort, equal
\* keys keep their input order.
RECURSIVE InsertDesc(_, _)
InsertDesc(x, s) ==
    IF s = <<>> THEN <<x>>
    ELSE IF _calculate_market_value(Head(s)) < _calculate_market_value(x)
         THEN <<x>> \o s
         ELSE <<Head(s)>> \o InsertDesc(x, Tail(s))

RECURSIVE sorted_holdings(_)
sorted_holdings(hs) ==
    IF hs = <<>> THEN <<>>
    ELSE InsertDesc(hs[Len(hs)], sorted_holdings(SubSeq(hs, 1, Len(hs) - 1)))

\* s[:k]
Take(s, k) == SubSeq(s, 1, IF Len(s) < k THEN Len(s) ELSE k)

MaxOfSet(S) == CHOOSE x \in S : \A y \in S : y <= x

FMaxOfSet(S) == CHOOSE x \in S : \A y \in S : FLe(y, x)

\* (part / total * 100) if total > 0 else 0
Percentage(part, total) == IF total > 0 THEN Mk(part * 100, total) ELSE Fin(0)

\* Mutant: the thresholds are inclusive.
_assess_concentration_risk_inclusive(concentration) ==
    IF FLe(Fin(80), concentration) THEN "High"
    ELSE IF FLe(Fin(60), concentration) THEN "Medium"
    ELSE "Low"

_assess_concentration_risk(concentration) ==
    IF FLt(Fin(80), concentration) THEN "High"
    ELSE IF FLt(Fin(60), concentration) THEN "Medium"
    ELSE "Low"

\* Mutant: the thresholds are inclusive.
_assess_sector_risk_inclusive(max_sector_concentration) ==
    IF FLe(Fin(50), max_sector_concentration) THEN "High"
    ELSE IF FLe(Fin(30), max_sector_concentration) THEN "Medium"
    ELSE "Low"

_assess_sector_risk(max_sector_concentration) ==
    IF FLt(Fin(50), max_sector_concentration) THEN "High"
    ELSE IF FLt(Fin(30), max_sector_concentration) THEN "Medium"
    ELSE "Low"

_assess_volatility_risk(volatility) ==
    IF FLt(Mk(30, 100), volatility) THEN "High"
    ELSE IF FLt(Mk(20, 100), volatility) THEN "Medium"
    ELSE "Low"

\* Mutant: the first five holdings are taken without sorting.
_calculate_concentration_risk_unsorted(hs) ==
    IF hs = <<>> THEN EmptyDict
    ELSE
      LET total_value == total_market_value(hs)
          top_5_concentration ==
              Percentage(total_market_value(Take(hs, 5)), total_value)
          max_single_stock ==
              MaxOfSet({_calculate_market_value(hs[i]) : i \in 1 .. Len(hs)})
      IN  [top_5_concentration |-> top_5_concentration,
           max_single_stock_concentration |->
               Percentage(max_single_stock, total_value),
           concentration_risk_level |->
               _assess_concentration_risk(top_5_concentration)]

_calculate_concentration_risk(hs) ==
    IF hs = <<>> THEN EmptyDict
    ELSE
      LET total_value == total_market_value(hs)
          top_5_value == total_market_value(Take(sorted_holdings(hs), 5))
          top_5_concentration == Percentage(top_5_value, total_value)
          max_single_stock ==
              MaxOfSet({_calculate_market_value(hs[i]) : i \in 1 .. Len(hs)})
      IN  [top_5_concentration |-> top_5_concentration,
           max_single_stock_concentration |->
               Percentage(max_single_stock, total_value),
           concentration_risk_level |->
               _assess_concentration_risk(top_5_concentration)]

\* holding.get('sector', 'Unknown')
SectorOf(holding) ==
    IF "sector" \in holding.keys THEN holding.sector ELSE "Unknown"

InSector(hs, sector) == SelectSeq(hs, LAMBDA h : SectorOf(h) = sector)

\* The sector_data dict both sector analyses of risk.py build in their
\* first loop: per sector, the summed market value and the count.
sector_data_of(hs) ==
    [sector \in {SectorOf(hs[i]) : i \in 1 .. Len(hs)} |->
        [total_value |-> total_market_value(InSector(hs, sector)),
         count |-> Len(InSector(hs, sector))]]

SumOver(f) ==
    LET RECURSIVE Go(_)
        Go(D) == IF D = {} THEN 0
                 ELSE LET d == CHOOSE d \in D : TRUE
                      IN  f[d].total_value + Go(D \ {d})
    IN  Go(DOMAIN f)

_calculate_sector_risk(hs) ==
    LET sector_data == sector_data_of(hs)
        total_value == SumOver(sector_data)
        sector_concentrations ==
            [sector \in DOMAIN sector_data |->
                [percentage |->
                     Percentage(sector_data[sector].total_value, total_value),
                 count |-> sector_data[sector].count,
                 total_value |-> sector_data[sector].total_value]]
        max_sector_concentration ==
            IF DOMAIN sector_concentrations # {}
            THEN FMaxOfSet({sector_concentrations[s].percentage :
                              s \in DOMAIN sector_concentrations})
            ELSE Fin(0)
    IN  [sector_concentrations |-> sector_concentrations,
         max_sector_concentration |-> max_sector_concentration,
         sector_risk_level |-> _assess_sector_risk(max_sector_concentration)]

_calculate_correlation_risk(hs) ==
    [correlation_risk_level |-> "Medium",
     recommendation |->
        "Consider historical correlation analysis for better risk assessment"]

\* weight = market value / total_value if total_value > 0 else 0
GuardedWeight(holding, total_value) ==
    IF total_value > 0
    THEN Mk(_calculate_market_value(holding), total_value)
    ELSE Fin(0)

_calculate_volatility_analysis(hs) ==
    IF hs = <<>> THEN EmptyDict
    ELSE
      LET total_value == total_market_value(hs)
          weighted_volatility ==
              FSumSeq([i \in 1 .. Len(hs) |->
                         FMul(GuardedWeight(hs[i], total_value), Mk(25, 100))])
      IN  [portfolio_volatility |-> weighted_volatility,
           volatility_risk_level |-> _assess_volatility_risk(weighted_volatility)]

_calculate_portfolio_volatility(hs) == Mk(20, 100)

\* scipy.stats.norm.ppf at the two confidence levels the code uses, to
\* three decimals (-1.6448..., -2.3263...).
norm_ppf(confidence_level) ==
    IF confidence_level = "0.05" THEN Mk(-1645, 1000) ELSE Mk(-2326, 1000)

_calculate_portfolio_var(hs, confidence_level) ==
    FMul(_calculate_portfolio_volatility(hs), norm_ppf(confidence_level))

_calculate_max_drawdown_risk(hs) == Mk(15, 100)

\* (market value / total_value) ** 2 for every holding, summed
SumSquaredWeights(hs, total_value) ==
    FSumSeq([i \in 1 .. Len(hs) |->
               LET w == Mk(_calculate_market_value(hs[i]), total_value)
               IN  FMul(w, w)])

\* Mutant: the weights are summed without being squared.
_calculate_diversification_score_unsquared(hs) ==
    IF hs = <<>> THEN Fin(0)
    ELSE
      LET total_value == total_market_value(hs)
          hhi == IF total_value > 0
                 THEN FSumSeq([i \in 1 .. Len(hs) |->
                                 Mk(_calculate_market_value(hs[i]), total_value)])
                 ELSE Fin(1)
      IN  PyMax(Fin(0), FSub(Fin(10), FMul(hhi, Fin(10))))

_calculate_diversification_score(hs) ==
    IF hs = <<>> THEN Fin(0)
    ELSE
      LET total_value == total_market_value(hs)
          hhi == IF total_value > 0 THEN SumSquaredWeights(hs, total_value)
                 ELSE Fin(1)
      IN  PyMax(Fin(0), FSub(Fin(10), FMul(hhi, Fin(10))))

\* Mutant: the volatility is scaled by 4, not 40.
_calculate_overall_risk_score_scaled_by_4(hs) ==
    IF hs = <<>> THEN Fin(10)
    ELSE
      LET concentration_risk == _calculate_concentration_risk(hs)
          sector_risk == _calculate_sector_risk(hs)
          volatility_risk == _calculate_volatility_analysis(hs)
          risk_score ==
              FAdd(FAdd(FMul(Mk(3, 10),
                             PyMin(Fin(10),
                                   FDiv(concentration_risk.top_5_concentration,
                                        Fin(10)))),
                        FMul(Mk(3, 10),
                             PyMin(Fin(10),
                                   FDiv(sector_risk.max_sector_concentration,
                                        Fin(10))))),
                   FMul(Mk(4, 10),
                        PyMin(Fin(10),
                              FMul(volatility_risk.portfolio_volatility, Fin(4)))))
      IN  PyMin(Fin(10), risk_score)

_calculate_overall_risk_score(hs) ==
    IF hs = <<>> THEN Fin(10)
    ELSE
      LET concentration_risk == _calculate_concentration_risk(hs)
          sector_risk == _calculate_sector_risk(hs)
          volatility_risk == _calculate_volatility_analysis(hs)
          concentration_part ==
              IF "top_5_concentration" \in DOMAIN concentration_risk
              THEN FMul(Mk(3, 10),
                        PyMin(Fin(10),
                              FDiv(concentration_risk.top_5_concentration, Fin(10))))
              ELSE Fin(0)
          sector_part ==
              IF "max_sector_concentration" \in DOMAIN sector_risk
              THEN FMul(Mk(3, 10),
                        PyMin(Fin(10),
                              FDiv(sector_risk.max_sector_concentration, Fin(10))))
              ELSE Fin(0)
          volatility_part ==
              IF "portfolio_volatility" \in DOMAIN volatility_risk
              THEN FMul(Mk(4, 10),
                        PyMin(Fin(10),
                              FMul(volatility_risk.portfolio_volatility, Fin(40))))
              ELSE Fin(0)
          risk_score == FAdd(FAdd(concentration_part, sector_part), volatility_part)
      IN  PyMin(Fin(10), risk_score)

_analyze_sector_diversification(hs) ==
    LET sector_data == sector_data_of(hs)
        total_value == SumOver(sector_data)
    IN  [sector \in DOMAIN sector_data |->
            [total_value |-> sector_data[sector].total_value,
             count |-> sector_data[sector].count,
             percentage |->
                 Percentage(sector_data[sector].total_value, total_value)]]

_analyze_stock_concentration(hs) ==
    IF hs = <<>> THEN EmptyDict
    ELSE
      LET total_value == total_market_value(hs)
          sorted == sorted_holdings(hs)
      IN  [top_1_concentration |->
               Percentage(_calculate_market_value(sorted[1]), total_value),
           top_3_concentration |->
               Percentage(total_market_value(Take(sorted, 3)), total_value),
           top_5_concentration |->
               Percentage(total_market_value(Take(sorted, 5)), total_value),
           number_of_stocks |-> Len(hs)]

_analyze_market_cap_diversification(hs) ==
    [large_cap_percentage |-> Fin(60),
     mid_cap_percentage |-> Fin(30),
     small_cap_percentage |-> Fin(10)]

\* Mutant: _calculate_hhi without its zero-total test.
_calculate_hhi_unguarded(hs) ==
    IF hs = <<>> THEN Fin(1)
    ELSE SumSquaredWeights(hs, total_market_value(hs))

_calculate_hhi(hs) ==
    IF hs = <<>> THEN Fin(1)
    ELSE LET total_value == total_market_value(hs)
         IN  IF total_value = 0 THEN Fin(1)
             ELSE SumSquaredWeights(hs, total_value)

\* Mutant: the index itself is returned, not its reciprocal.
_calculate_effective_stocks_uninverted(hs) ==
    LET hhi == _calculate_hhi(hs)
    IN  IF FLt(Fin(0), hhi) THEN hhi ELSE Fin(0)

_calculate_effective_stocks(hs) ==
    LET hhi == _calculate_hhi(hs)
    IN  IF FLt(Fin(0), hhi) THEN FDiv(Fin(1), hhi) ELSE Fin(0)

\* Mutant: only the first finding that triggers is reported.
_generate_diversification_recommendations_first_only(hs) ==
    LET concentration_risk == _calculate_concentration_risk(hs)
        sector_risk == _calculate_sector_risk(hs)
    IN  IF /\ "top_5_concentration" \in DOMAIN concentration_risk
           /\ FLt(Fin(70), concentration_risk.top_5_concentration)
        THEN <<"Consider reducing concentration in top 5 holdings">>
        ELSE IF FLt(Fin(40), sector_risk.max_sector_concentration)
        THEN <<"Consider diversifying across more sectors">>
        ELSE IF Len(hs) < 10
        THEN <<"Consider increasing the number of stocks for better diversification">>
        ELSE IF FLt(Mk(25, 100), _calculate_hhi(hs))
        THEN <<"Portfolio is highly concentrated - consider more diversification">>
        ELSE <<"Portfolio appears well-diversified">>

_generate_diversification_recommendations(hs) ==
    LET concentration_risk == _calculate_concentration_risk(hs)
        sector_risk == _calculate_sector_risk(hs)
        hhi == _calculate_hhi(hs)
        r1 == IF /\ "top_5_concentration" \in DOMAIN concentration_risk
                 /\ FLt(Fin(70), concentration_risk.top_5_concentration)
              THEN <<"Consider reducing concentration in top 5 holdings">>
              ELSE <<>>
        r2 == IF /\ "max_sector_concentration" \in DOMAIN sector_risk
                 /\ FLt(Fin(40), sector_risk.max_sector_concentration)
              THEN <<"Consider diversifying across more sectors">>
              ELSE <<>>
        r3 == IF Len(hs) < 10
              THEN <<"Consider increasing the number of stocks for better diversification">>
              ELSE <<>>
        r4 == IF FLt(Mk(25, 100), hhi)
              THEN <<"Portfolio is highly concentrated - consider more diversification">>
              ELSE <<>>
        recommendations == r1 \o r2 \o r3 \o r4
    IN  IF recommendations = <<>>
        THEN <<"Portfolio appears well-diversified">>
        ELSE recommendations

_estimate_stock_volatility(holding) == Mk(25, 100)

_estimate_stock_var(holding, confidence_level) ==
    FMul(_estimate_stock_volatility(holding), norm_ppf(confidence_level))

_calculate_risk_concentration(stock_risks) ==
    IF stock_risks = <<>> THEN EmptyDict
    ELSE [total_risk |->
              FSumSeq([i \in 1 .. Len(stock_risks) |->
                         FMul(stock_risks[i].weight, stock_risks[i].volatility)]),
          risk_concentration_score |->
              FSumSeq([i \in 1 .. Len(stock_risks) |->
                         FMul(stock_risks[i].weight, stock_risks[i].weight)])]

_calculate_tail_risk(stock_risks) ==
    IF stock_risks = <<>> THEN EmptyDict
    ELSE
      LET portfolio_var_99 ==
              FSumSeq([i \in 1 .. Len(stock_risks) |->
                         FMul(stock_risks[i].weight, stock_risks[i].var_99)])
      IN  [portfolio_var_99 |-> portfolio_var_99,
           tail_risk_level |->
               IF FLt(Mk(5, 100), portfolio_var_99) THEN "High"
               ELSE IF FLt(Mk(3, 100), portfolio_var_99) THEN "Medium"
               ELSE "Low"]

NoHoldings == [error |-> "No holdings data available"]

\* portfolio_data.get('holdings', [])
GetHoldings(p) == IF "holdings" \in p.keys THEN p.holdings ELSE <<>>

analyze_portfolio_risk(p) ==
    LET hs == GetHoldings(p)
    IN  IF hs = <<>> THEN Return(NoHoldings)
        ELSE Return(
          [concentration_risk |-> _calculate_concentration_risk(hs),
           sector_risk |-> _calculate_sector_risk(hs),
           correlation_risk |-> _calculate_correlation_risk(hs),
           volatility_analysis |-> _calculate_volatility_analysis(hs),
           total_portfolio_value |-> Fin(total_market_value(hs)),
           total_pnl |-> Fin(total_pnl_of(hs)),
           portfolio_volatility |-> _calculate_portfolio_volatility(hs),
           var_95 |-> _calculate_portfolio_var(hs, "0.05"),
           var_99 |-> _calculate_portfolio_var(hs, "0.01"),
           max_drawdown_risk |-> _calculate_max_drawdown_risk(hs),
           diversification_score |-> _calculate_diversification_score(hs),
           risk_score |-> _calculate_overall_risk_score(hs)])

\* Mutant: analyze_diversification without its empty-list test.
analyze_diversification_unguarded(hs) ==
    Return(
      [sector_diversification |-> _analyze_sector_diversification(hs),
       stock_concentration |-> _analyze_stock_concentration(hs),
       market_cap_diversification |-> _analyze_market_cap_diversification(hs),
       herfindahl_hirschman_index |-> _calculate_hhi(hs),
       effective_number_of_stocks |-> _calculate_effective_stocks(hs),
       diversification_recommendations |->
           _generate_diversification_recommendations(hs)])

analyze_diversification(hs) ==
    IF hs = <<>> THEN Return(NoHoldings)
    ELSE Return(
      [sector_diversification |-> _analyze_sector_diversification(hs),
       stock_concentration |-> _analyze_stock_concentration(hs),
       market_cap_diversification |-> _analyze_market_cap_diversification(hs),
       herfindahl_hirschman_index |-> _calculate_hhi(hs),
       effective_number_of_stocks |-> _calculate_effective_stocks(hs),
       diversification_recommendations |->
           _generate_diversification_recommendations(hs)])

\* One element of stock_risks.  The weight divides by the summed market
\* value with Python's float division and no guard.
StockRisk(holding, total_value) ==
    LET market_value == _calculate_market_value(holding)
    IN  [symbol |-> holding.tradingsymbol,
         market_value |-> Fin(market_value),
         pnl |-> Fin(holding.pnl),
         pnl_percentage |-> IF market_value > 0
                            THEN Mk(holding.pnl * 100, market_value)
                            ELSE Fin(0),
         weight |-> Mk(market_value, total_value),
         volatility |-> _estimate_stock_volatility(holding),
         var_95 |-> _estimate_stock_var(holding, "0.05"),
         var_99 |-> _estimate_stock_var(holding, "0.01")]

\* RiskAnalyzer.calculate_risk_metrics
risk_calculate_risk_metrics(hs) ==
    IF hs = <<>> THEN Return(NoHoldings)
    ELSE
      LET total_value == total_market_value(hs)
      IN  IF total_value = 0 THEN Raise("ZeroDivisionError")
          ELSE
            LET stock_risks == [i \in 1 .. Len(hs) |-> StockRisk(hs[i], total_value)]
                WeightedSum(field) ==
                    FSumSeq([i \in 1 .. Len(hs) |->
                               FMul(stock_risks[i].weight, stock_risks[i][field])])
            IN  Return(
                  [total_portfolio_value |-> Fin(total_value),
                   total_pnl |-> Fin(total_pnl_of(hs)),
                   portfolio_volatility |-> WeightedSum("volatility"),
                   portfolio_var_95 |-> WeightedSum("var_95"),
                   portfolio_var_99 |-> WeightedSum("var_99"),
                   stock_risks |-> stock_risks,
                   risk_concentration |-> _calculate_risk_concentration(stock_risks),
                   tail_risk |-> _calculate_tail_risk(stock_risks)])

(***************************************************************************)
(* portfolio.py: PortfolioAnalyzer.analyze_portfolio                       *)
(***************************************************************************)
\* holding['market_value'] is read with no fallback.
HasMarketValue(hs) == \A i \in 1 .. Len(hs) : "market_value" \in hs[i].keys

RECURSIVE sum_market_value_field(_)
sum_market_value_field(hs) ==
    IF hs = <<>> THEN 0
    ELSE Head(hs).market_value + sum_market_value_field(Tail(hs))

_analyze_sectors(hs) ==
    LET sectors == {SectorOf(hs[i]) : i \in 1 .. Len(hs)}
        sector_data ==
            [sector \in sectors |->
                [total_value |-> sum_market_value_field(InSector(hs, sector)),
                 holdings |-> InSector(hs, sector),
                 count |-> Len(InSector(hs, sector))]]
        total_value == SumOver(sector_data)
    IN  [sector \in sectors |->
            [total_value |-> sector_data[sector].total_value,
             holdings |-> sector_data[sector].holdings,
             count |-> sector_data[sector].count,
             percentage |->
                 Percentage(sector_data[sector].total_value, total_value)]]

None == [none |-> TRUE]

\* max(holdings, key=pnl) / min(holdings, key=pnl): the first holding that
\* attains the extreme.
best_performer(hs) ==
    IF hs = <<>> THEN None
    ELSE hs[CHOOSE i \in 1 .. Len(hs) :
              /\ \A j \in 1 .. Len(hs) : hs[j].pnl <= hs[i].pnl
              /\ \A j \in 1 .. i - 1 : hs[j].pnl < hs[i].pnl]

worst_performer(hs) ==
    IF hs = <<>> THEN None
    ELSE hs[CHOOSE i \in 1 .. Len(hs) :
              /\ \A j \in 1 .. Len(hs) : hs[j].pnl >= hs[i].pnl
              /\ \A j \in 1 .. i - 1 : hs[j].pnl > hs[i].pnl]

\* Mutant: a holding with pnl exactly 0 is counted as positive.
_analyze_pnl_zero_is_positive(hs) ==
    LET positive_pnl == SelectSeq(hs, LAMBDA h : h.pnl >= 0)
        negative_pnl == SelectSeq(hs, LAMBDA h : h.pnl < 0)
    IN  [positive_count |-> Len(positive_pnl),
         negative_count |-> Len(negative_pnl),
         total_positive_pnl |-> total_pnl_of(positive_pnl),
         total_negative_pnl |-> total_pnl_of(negative_pnl),
         best_performer |-> best_performer(hs),
         worst_performer |-> worst_performer(hs)]

_analyze_pnl(hs) ==
    LET positive_pnl == SelectSeq(hs, LAMBDA h : h.pnl > 0)
        negative_pnl == SelectSeq(hs, LAMBDA h : h.pnl < 0)
    IN  [positive_count |-> Len(positive_pnl),
         negative_count |-> Len(negative_pnl),
         total_positive_pnl |-> total_pnl_of(positive_pnl),
         total_negative_pnl |-> total_pnl_of(negative_pnl),
         best_performer |-> best_performer(hs),
         worst_performer |-> worst_performer(hs)]

\* sorted(holdings, key=market_value field, reverse=True)[:10]
RECURSIVE InsertDescField(_, _)
InsertDescField(x, s) ==
    IF s = <<>> THEN <<x>>
    ELSE IF Head(s).market_value < x.market_value
         THEN <<x>> \o s
         ELSE <<Head(s)>> \o InsertDescField(x, Tail(s))

RECURSIVE sorted_by_field(_)
sorted_by_field(hs) ==
    IF hs = <<>> THEN <<>>
    ELSE InsertDescField(hs[Len(hs)], sorted_by_field(SubSeq(hs, 1, Len(hs) - 1)))

\* Mutant: the percentage without its zero-total test.
total_pnl_percentage_unguarded(total_pnl, total_value) ==
    Mk(total_pnl * 100, total_value)

\* (total_pnl / total_value * 100) if total_value > 0 else 0
total_pnl_percentage(total_pnl, total_value) ==
    IF total_value > 0 THEN Mk(total_pnl * 100, total_value) ELSE Fin(0)

\* analyze_portfolio(portfolio) for a portfolio that is not None.  The
\* 'timestamp' entry is the wall clock at the call and is left symbolic.
analyze_portfolio(p) ==
    IF "holdings" \notin p.keys THEN Raise("KeyError")
    ELSE
      LET hs == p.holdings
      IN  IF ~HasMarketValue(hs) THEN Raise("KeyError")
          ELSE
            LET total_value == sum_market_value_field(hs)
                total_pnl == total_pnl_of(hs)
            IN  Return(
                  [total_value |-> total_value,
                   total_pnl |-> total_pnl,
                   total_pnl_percentage |->
                       total_pnl_percentage(total_pnl, total_value),
                   number_of_holdings |-> Len(hs),
                   sector_analysis |-> _analyze_sectors(hs),
                   top_holdings |-> Take(sorted_by_field(hs), 10),
                   pnl_analysis |-> _analyze_pnl(hs),
                   timestamp |-> "now"])

(***************************************************************************)
(* performance.py: PerformanceAnalyzer                                     *)
(*                                                                         *)
(* A DataFrame is [columns, index, total_value, daily_return]: the set of  *)
(* its column names, its index (timestamps, strictly increasing) and the   *)
(* columns' values; a column that is not in `columns` holds <<>>.  A       *)
(* pandas Series is a sequence of [t, v] pairs, index and value.           *)
(*                                                                         *)
(* Square roots are kept symbolic: Surd(c, r) stands for c * sqrt(r), so   *)
(* std() * sqrt(252) is Surd(1, 252 * variance).  (1 + x) ** 252 - 1 and   *)
(* the scipy moments are kept as terms over their exact arguments.         *)
(***************************************************************************)
SeriesValues == {-1, 0, 1, 2}

EmptyFrame == [columns |-> {}, index |-> <<>>, total_value |-> <<>>,
               daily_return |-> <<>>]

Frame(values) ==
    [columns |-> {"total_value"}, index |-> [i \in 1 .. Len(values) |-> i],
     total_value |-> values, daily_return |-> <<>>]

Frames ==
    {EmptyFrame}
    \cup UNION {{Frame(v) : v \in [1 .. n -> SeriesValues]} : n \in 1 .. MaxLen}

\* len(portfolio_data)
FrameLen(df) == Len(df.index)

\* portfolio_data['total_value']
total_value_series(df) ==
    [i \in 1 .. FrameLen(df) |-> [t |-> df.index[i], v |-> Fin(df.total_value[i])]]

Values(s) == [i \in 1 .. Len(s) |-> s[i].v]

\* Series.pct_change(periods): s / s.shift(periods) - 1
pct_change(s, periods) ==
    [i \in 1 .. Len(s) |->
        [t |-> s[i].t,
         v |-> IF i <= periods THEN NaN
               ELSE FSub(FDiv(s[i].v, s[i - periods].v), Fin(1))]]

\* Series.dropna(): NaN is dropped, +-inf is kept
dropna(s) == SelectSeq(s, LAMBDA e : ~IsNaN(e.v))

\* Series.mean() of a series without NaN
mean(s) == IF s = <<>> THEN NaN ELSE FDiv(FSumSeq(Values(s)), Fin(Len(s)))

\* sum of (x - mean) * (y - mean) over two aligned series
CoMoment(x, y) ==
    FSumSeq([i \in 1 .. Len(x) |->
               FMul(FSub(x[i].v, mean(x)), FSub(y[i].v, mean(y)))])

\* Series.var() / np.var: divisor n - ddof
variance(s, ddof) ==
    IF Len(s) - ddof <= 0 THEN NaN
    ELSE FDiv(CoMoment(s, s), Fin(Len(s) - ddof))

Surd(c, r) == [coef |-> c, sqrt_of |-> r]

Zero == Surd(Fin(0), Fin(1))

One == Surd(Fin(1), Fin(1))

\* Series.std() * np.sqrt(252)
annualized_std(s) == Surd(Fin(1), FMul(Fin(252), variance(s, 1)))

\* returns.std() == 0
StdIsZero(s) == FEq(variance(s, 1), Fin(0))

_calculate_sharpe_ratio(returns) ==
    IF StdIsZero(returns) THEN Zero
    ELSE LET excess_returns == FSub(mean(returns), Mk(2, 100 * 252))
         IN  Surd(excess_returns, FDiv(Fin(252), variance(returns, 1)))

\* portfolio_values.expanding().max(): at each position the largest of the
\* values up to it (the values of a value column are never NaN).
expanding_max(s) ==
    [i \in 1 .. Len(s) |->
        [t |-> s[i].t, v |-> FMaxOfSet({s[j].v : j \in 1 .. i})]]

\* Series.min(): NaN entries are skipped, NaN when nothing is left
series_min(s) ==
    LET kept == {s[i].v : i \in 1 .. Len(s)} \ {NaN}
    IN  IF kept = {} THEN NaN
        ELSE CHOOSE x \in kept : \A y \in kept : FLe(x, y)

drawdown_series(s, peak) ==
    [i \in 1 .. Len(s) |->
        [t |-> s[i].t, v |-> FDiv(FSub(s[i].v, peak[i].v), peak[i].v)]]

_calculate_max_drawdown(portfolio_values) ==
    series_min(drawdown_series(portfolio_values, expanding_max(portfolio_values)))

FAbs(x) == [num |-> Abs(x.num), den |-> x.den]

\* The term annualized_return / max_drawdown; `zero` marks the branch
\* that returns 0 instead.
_calculate_calmar_ratio(annualized_return, portfolio_values) ==
    LET max_drawdown == FAbs(_calculate_max_drawdown(portfolio_values))
    IN  [zero |-> ~FLt(Fin(0), max_drawdown),
         annualized_return |-> annualized_return,
         max_drawdown |-> max_drawdown]

\* Mutant: the NaN rows are dropped from the caller's DataFrame in place.
with_daily_return_dropna(df) ==
    LET daily == Values(pct_change(total_value_series(df), 1))
        kept(column) ==
            LET RECURSIVE Go(_)
                Go(i) == IF i > FrameLen(df) THEN <<>>
                         ELSE (IF IsNaN(daily[i]) THEN <<>> ELSE <<column[i]>>)
                              \o Go(i + 1)
            IN  Go(1)
    IN  [columns |-> df.columns \cup {"daily_return"},
         index |-> kept(df.index),
         total_value |-> kept(df.total_value),
         daily_return |-> kept(daily)]

\* The column assignment at the top of calculate_returns.
with_daily_return(df) ==
    [df EXCEPT !.columns = @ \cup {"daily_return"},
               !.daily_return = Values(pct_change(total_value_series(df), 1))]

\* .iloc[-1]
Last(s) == s[Len(s)]

\* portfolio_data['daily_return']
daily_return_series(df) ==
    [i \in 1 .. FrameLen(df) |-> [t |-> df.index[i], v |-> df.daily_return[i]]]

\* calculate_returns from its second statement on: df is the caller's
\* DataFrame with the daily_return column assigned.
returns_metrics(df) ==
    LET total_value == total_value_series(df)
        returns == dropna(daily_return_series(df))
    IN  IF Len(returns) = 0
        THEN Return([error |-> "No valid return data available"])
        ELSE
          LET avg_daily_return == mean(returns)
              annualized_return ==
                  [pow252_minus_1_of |-> FAdd(Fin(1), avg_daily_return)]
          IN  Return(
                [total_return |->
                     FSub(FDiv(Last(total_value).v, total_value[1].v), Fin(1)),
                 avg_daily_return |-> avg_daily_return,
                 annualized_return |-> annualized_return,
                 rolling_30d_return |-> Last(pct_change(total_value, 30)).v,
                 rolling_90d_return |-> Last(pct_change(total_value, 90)).v,
                 volatility |-> annualized_std(returns),
                 sharpe_ratio |-> _calculate_sharpe_ratio(returns),
                 max_drawdown |-> _calculate_max_drawdown(total_value),
                 calmar_ratio |->
                     _calculate_calmar_ratio(annualized_return, total_value)])

\* Mutant: the length test of calculate_returns off by one.
calculate_returns_short_test(df) ==
    IF FrameLen(df) < 1
    THEN Return([error |-> "Insufficient data for return calculation"])
    ELSE returns_metrics(with_daily_return(df))

calculate_returns(df) ==
    IF FrameLen(df) < 2
    THEN Return([error |-> "Insufficient data for return calculation"])
    ELSE returns_metrics(with_daily_return(df))

\* The caller's DataFrame after calculate_returns has run on it.
calculate_returns_frame(df) ==
    IF FrameLen(df) < 2 THEN df ELSE with_daily_return(df)

\* np.sort of the values, ascending
RECURSIVE InsertAsc(_, _)
InsertAsc(x, s) ==
    IF s = <<>> THEN <<x>>
    ELSE IF FLt(x, Head(s)) THEN <<x>> \o s
         ELSE <<Head(s)>> \o InsertAsc(x, Tail(s))

RECURSIVE sorted_values(_)
sorted_values(v) ==
    IF v = <<>> THEN <<>>
    ELSE InsertAsc(v[Len(v)], sorted_values(SubSeq(v, 1, Len(v) - 1)))

\* np.percentile(returns, q), linear interpolation between the two order
\* statistics around position (n - 1) * q / 100.
percentile(returns, q) ==
    LET a == sorted_values(Values(returns))
        n == Len(a)
        lo == ((n - 1) * q) \div 100
        hi == IF lo + 1 < n THEN lo + 1 ELSE n - 1
        t == Mk(((n - 1) * q) % 100, 100)
        diff == FSub(a[hi + 1], a[lo + 1])
    IN  IF FLt(t, Mk(1, 2))
        THEN FAdd(a[lo + 1], FMul(diff, t))
        ELSE FSub(a[hi + 1], FMul(diff, FSub(Fin(1), t)))

\* returns[returns <= threshold]
at_or_below(returns, threshold) ==
    SelectSeq(returns, LAMBDA e : FLe(e.v, threshold))

\* index.intersection, then .loc on it: the entries of s at the timestamps
\* that also occur in other
aligned(s, other) ==
    SelectSeq(s, LAMBDA e : \E j \in 1 .. Len(other) : other[j].t = e.t)

\* None where a Series is expected
NoSeries == <<None>>

_calculate_beta(portfolio_returns, market_returns) ==
    IF market_returns = NoSeries THEN One
    ELSE
      LET portfolio_aligned == aligned(portfolio_returns, market_returns)
          market_aligned == aligned(market_returns, portfolio_returns)
      IN  IF Len(portfolio_aligned) < 2 THEN One
          ELSE
            LET covariance ==
                    FDiv(CoMoment(portfolio_aligned, market_aligned),
                         Fin(Len(portfolio_aligned) - 1))
                market_variance == variance(market_aligned, 0)
            IN  IF FLt(Fin(0), market_variance)
                THEN Surd(FDiv(covariance, market_variance), Fin(1))
                ELSE One

\* PerformanceAnalyzer.calculate_risk_metrics
perf_calculate_risk_metrics(df) ==
    IF FrameLen(df) < 2
    THEN Return([error |-> "Insufficient data for risk calculation"])
    ELSE
      LET returns == dropna(pct_change(total_value_series(df), 1))
      IN  IF Len(returns) = 0
          THEN Return([error |-> "No valid return data available"])
          ELSE
            LET var_95 == percentile(returns, 5)
                var_99 == percentile(returns, 1)
                downside_returns == SelectSeq(returns, LAMBDA e : FLt(e.v, Fin(0)))
            IN  Return(
                  [volatility |-> annualized_std(returns),
                   var_95 |-> var_95,
                   cvar_95 |-> mean(at_or_below(returns, var_95)),
                   downside_deviation |->
                       IF Len(downside_returns) > 0
                       THEN annualized_std(downside_returns)
                       ELSE Zero,
                   beta |-> _calculate_beta(returns, NoSeries),
                   skewness |-> [skew_of |-> Values(returns)],
                   kurtosis |-> [kurtosis_of |-> Values(returns)],
                   var_99 |-> var_99,
                   cvar_99 |-> mean(at_or_below(returns, var_99))])

\* A benchmark DataFrame is [index, value]; None when not supplied.
Benchmark(idx, values) == [index |-> idx, value |-> values]

\* The benchmarks a caller supplies: none, a single point, one over the
\* portfolio's first three timestamps, one with no timestamp in common.
Benchmarks ==
    {None,
     Benchmark(<<1>>, <<1>>),
     Benchmark(<<1, 2, 3>>, <<1, 2, 1>>),
     Benchmark(<<7, 8>>, <<1, 2>>)}

\* benchmark_data['value']
value_series(b) ==
    [i \in 1 .. Len(b.index) |-> [t |-> b.index[i], v |-> Fin(b.value[i])]]

\* portfolio_aligned - benchmark_aligned
series_sub(x, y) ==
    [i \in 1 .. Len(x) |-> [t |-> x[i].t, v |-> FSub(x[i].v, y[i].v)]]

benchmark_comparison(portfolio_aligned, benchmark_aligned) ==
    LET excess_returns == series_sub(portfolio_aligned, benchmark_aligned)
    IN  [excess_return |-> FMul(mean(excess_returns), Fin(252)),
         tracking_error |-> annualized_std(excess_returns),
         information_ratio |->
             Surd(mean(excess_returns),
                  FDiv(Fin(252), variance(excess_returns, 1))),
         correlation |->
             Surd(FDiv(CoMoment(portfolio_aligned, benchmark_aligned),
                       Fin(Len(portfolio_aligned) - 1)),
                  FDiv(Fin(1), FMul(variance(portfolio_aligned, 1),
                                    variance(benchmark_aligned, 1)))),
         beta |-> _calculate_beta(portfolio_aligned, benchmark_aligned)]

\* Mutant: the section is emitted without the test for common dates.
calculate_performance_attribution_unchecked_overlap(df, benchmark_data) ==
    IF FrameLen(df) < 2
    THEN Return([error |-> "Insufficient data for attribution analysis"])
    ELSE
      LET portfolio_returns == dropna(pct_change(total_value_series(df), 1))
          attribution ==
              [portfolio_metrics |-> calculate_returns(df).ret,
               risk_metrics |->
                   perf_calculate_risk_metrics(calculate_returns_frame(df)).ret]
          benchmark_returns == dropna(pct_change(value_series(benchmark_data), 1))
          portfolio_aligned == aligned(portfolio_returns, benchmark_returns)
          benchmark_aligned == aligned(benchmark_returns, portfolio_returns)
      IN  IF /\ benchmark_data # None
             /\ Len(benchmark_data.index) > 1
          THEN Return(
                 [portfolio_metrics |-> attribution.portfolio_metrics,
                  risk_metrics |-> attribution.risk_metrics,
                  benchmark_comparison |->
                      benchmark_comparison(portfolio_aligned, benchmark_aligned)])
          ELSE Return(attribution)

calculate_performance_attribution(df, benchmark_data) ==
    IF FrameLen(df) < 2
    THEN Return([error |-> "Insufficient data for attribution analysis"])
    ELSE
      LET portfolio_returns == dropna(pct_change(total_value_series(df), 1))
          attribution ==
              [portfolio_metrics |-> calculate_returns(df).ret,
               risk_metrics |->
                   perf_calculate_risk_metrics(calculate_returns_frame(df)).ret]
          benchmark_returns == dropna(pct_change(value_series(benchmark_data), 1))
          portfolio_aligned == aligned(portfolio_returns, benchmark_returns)
          benchmark_aligned == aligned(benchmark_returns, portfolio_returns)
      IN  IF /\ benchmark_data # None
             /\ Len(benchmark_data.index) > 1
             /\ Len(portfolio_aligned) > 0
          THEN Return(
                 [portfolio_metrics |-> attribution.portfolio_metrics,
                  risk_metrics |-> attribution.risk_metrics,
                  benchmark_comparison |->
                      benchmark_comparison(portfolio_aligned, benchmark_aligned)])
          ELSE Return(attribution)

\* DataFrame.rolling(window): the window ending at position i, or <<>> while
\* fewer than `window` entries exist; rolling treats +-inf as missing.
window_at(s, i, window) ==
    IF i < window THEN <<>> ELSE SubSeq(s, i - window + 1, i)

window_complete(w) == w # <<>> /\ \A i \in 1 .. Len(w) : IsFinite(w[i].v)

rolling_mean(s, window) ==
    [i \in 1 .. Len(s) |->
        LET w == window_at(s, i, window)
        IN  [t |-> s[i].t, v |-> IF window_complete(w) THEN mean(w) ELSE NaN]]

rolling_var(s, window) ==
    [i \in 1 .. Len(s) |->
        LET w == window_at(s, i, window)
        IN  [t |-> s[i].t,
             v |-> IF window_complete(w) THEN variance(w, 1) ELSE NaN]]

rolling_max(s, window) ==
    [i \in 1 .. Len(s) |->
        LET w == window_at(s, i, window)
        IN  [t |-> s[i].t,
             v |-> IF window_complete(w)
                   THEN FMaxOfSet({w[j].v : j \in 1 .. Len(w)})
                   ELSE NaN]]

_calculate_rolling_drawdown(portfolio_values, window) ==
    drawdown_series(portfolio_values, rolling_max(portfolio_values, window))

\* Assigning a Series to a column of a frame aligns it on the frame's index.
at_index(s, idx) ==
    [i \in 1 .. Len(idx) |->
        IF \E j \in 1 .. Len(s) : s[j].t = idx[i]
        THEN s[CHOOSE j \in 1 .. Len(s) : s[j].t = idx[i]].v
        ELSE NaN]

Windows == {2, 30}

calculate_rolling_metrics(df, window) ==
    IF FrameLen(df) < window
    THEN Return([columns |-> {}, index |-> <<>>])
    ELSE
      LET total_value == total_value_series(df)
          returns == dropna(pct_change(total_value, 1))
          index == [i \in 1 .. Len(returns) |-> returns[i].t]
          rolling_return ==
              [i \in 1 .. Len(returns) |->
                  FMul(rolling_mean(returns, window)[i].v, Fin(252))]
          rolling_variance == Values(rolling_var(returns, window))
      IN  Return(
            [columns |-> {"rolling_return", "rolling_volatility",
                          "rolling_sharpe", "rolling_drawdown"},
             index |-> index,
             rolling_return |-> rolling_return,
             rolling_volatility |->
                 [i \in 1 .. Len(returns) |->
                     Surd(Fin(1), FMul(Fin(252), rolling_variance[i]))],
             rolling_sharpe |->
                 [i \in 1 .. Len(returns) |->
                     Surd(rolling_return[i],
                          FDiv(Fin(1), FMul(Fin(252), rolling_variance[i])))],
             rolling_drawdown |->
                 at_index(_calculate_rolling_drawdown(total_value, window),
                          index)])

(***************************************************************************)
(* The caller.  It holds one portfolio mapping and one DataFrame, and      *)
(* calls the entry points on them in any order.  `caller` is the caller's  *)
(* own copy of both, taken before the first call; `result` is the outcome  *)
(* of the last call.                                                       *)
(***************************************************************************)
PortfoliosOver(shapes) ==
    {[keys |-> {"holdings"}, holdings |-> hs] :
        hs \in {l \in HoldingLists :
                  \A i \in 1 .. Len(l) :
                     [l[i] EXCEPT !.tradingsymbol = 0] \in shapes}}
    \cup {[keys |-> {}, holdings |-> <<>>]}

Portfolios == PortfoliosOver(HoldingShapes)

PlainShapes == {Holding(0, {"market_value"}, v, 0, 0, 0, "") : v \in MarketValues}

NoPortfolio == [keys |-> {"holdings"}, holdings |-> <<>>]

NoCall == [op |-> "none", arg |-> None, exc |-> "None", ret |-> <<>>]

Called(name, a, outcome) ==
    [op |-> name, arg |-> a, exc |-> outcome.exc, ret |-> outcome.ret]

\* A run analyses either a portfolio snapshot (of plain holdings) or a
\* historical series; the other input is empty.
Init ==
    /\ \/ portfolio \in PortfoliosOver(PlainShapes) /\ portfolio_data = EmptyFrame
       \/ portfolio = NoPortfolio /\ portfolio_data \in Frames
    /\ caller = [portfolio |-> portfolio, portfolio_data |-> portfolio_data]
    /\ result = NoCall

\* A run of the snapshot analyses alone, over every shape of holding.
InitRisk ==
    /\ portfolio \in Portfolios
    /\ portfolio_data = EmptyFrame
    /\ caller = [portfolio |-> portfolio, portfolio_data |-> portfolio_data]
    /\ result = NoCall

AnalyzePortfolioRisk ==
    /\ result' = Called("analyze_portfolio_risk", None,
                        analyze_portfolio_risk(portfolio))
    /\ UNCHANGED <<portfolio, portfolio_data, caller>>

\* Called as generate_risk_report calls it, on portfolio.get('holdings', []).
AnalyzeDiversification ==
    /\ result' = Called("analyze_diversification", None,
                        analyze_diversification(GetHoldings(portfolio)))
    /\ UNCHANGED <<portfolio, portfolio_data, caller>>

RiskCalculateRiskMetrics ==
    /\ result' = Called("RiskAnalyzer.calculate_risk_metrics", None,
                        risk_calculate_risk_metrics(GetHoldings(portfolio)))
    /\ UNCHANGED <<portfolio, portfolio_data, caller>>

AnalyzePortfolio ==
    /\ result' = Called("analyze_portfolio", None, analyze_portfolio(portfolio))
    /\ UNCHANGED <<portfolio, portfolio_data, caller>>

CalculateReturns ==
    /\ result' = Called("calculate_returns", None,
                        calculate_returns(portfolio_data))
    /\ portfolio_data' = calculate_returns_frame(portfolio_data)
    /\ UNCHANGED <<portfolio, caller>>

PerfCalculateRiskMetrics ==
    /\ result' = Called("PerformanceAnalyzer.calculate_risk_metrics", None,
                        perf_calculate_risk_metrics(portfolio_data))
    /\ UNCHANGED <<portfolio, portfolio_data, caller>>

CalculatePerformanceAttribution ==
    \E benchmark_data \in Benchmarks :
        /\ result' = Called("calculate_performance_attribution", benchmark_data,
                            calculate_performance_attribution(portfolio_data,
                                                              benchmark_data))
        /\ portfolio_data' = calculate_returns_frame(portfolio_data)
        /\ UNCHANGED <<portfolio, caller>>

CalculateRollingMetrics ==
    \E window \in Windows :
        /\ result' = Called("calculate_rolling_metrics", [window |-> window],
                            calculate_rolling_metrics(portfolio_data, window))
        /\ UNCHANGED <<portfolio, portfolio_data, caller>>

Next ==
    \/ AnalyzePortfolioRisk
    \/ AnalyzeDiversification
    \/ RiskCalculateRiskMetrics
    \/ AnalyzePortfolio
    \/ CalculateReturns
    \/ PerfCalculateRiskMetrics
    \/ CalculatePerformanceAttribution
    \/ CalculateRollingMetrics

Spec == Init /\ [][Next]_vars

NextRisk ==
    \/ AnalyzePortfolioRisk
    \/ AnalyzeDiversification
    \/ RiskCalculateRiskMetrics
    \/ AnalyzePortfolio

SpecRisk == InitRisk /\ [][NextRisk]_vars

\* Direct calls of RiskAnalyzer's helpers on the caller's holdings list.
CalculateHhi ==
    /\ result' = Called("_calculate_hhi", None,
                        Return(_calculate_hhi(GetHoldings(portfolio))))
    /\ UNCHANGED <<portfolio, portfolio_data, caller>>

CalculateEffectiveStocks ==
    /\ result' = Called("_calculate_effective_stocks", None,
                        Return(_calculate_effective_stocks(GetHoldings(portfolio))))
    /\ UNCHANGED <<portfolio, portfolio_data, caller>>

CalculateDiversificationScore ==
    /\ result' = Called("_calculate_diversification_score", None,
                        Return(_calculate_diversification_score(
                                   GetHoldings(portfolio))))
    /\ UNCHANGED <<portfolio, portfolio_data, caller>>

NextHelpers ==
    \/ CalculateHhi
    \/ CalculateEffectiveStocks
    \/ CalculateDiversificationScore

SpecHelpers == InitRisk /\ [][NextHelpers]_vars

(***************************************************************************)
(* Larger snapshots.  The helpers that look at the five largest holdings   *)
(* and at the number of holdings are exercised on snapshots of up to       *)
(* MinStocks + 1 holdings: all of value 1 except the last `heavy` ones,    *)
(* with the sectors assigned in rotation.                                  *)
(***************************************************************************)
\* sorted_holdings[:5]
TopHoldings == 5

\* len(holdings) < 10
MinStocks == 10

\* "" stands for a holding without the 'sector' key.
SectorCycle == <<"", "IT", "Banking", "FMCG">>

HeavyValues == {-1, 0, 2, 4, 9}

HeavyCounts == {0, 1, TopHoldings}

SampleHolding(i, mv, sec) ==
    Holding(i, IF sec = "" THEN {"market_value"} ELSE {"market_value", "sector"},
            mv, 0, 0, 0, sec)

SampleHoldings(n, heavy, value, sectors) ==
    IF n = 0 THEN <<>>
    ELSE [i \in 1 .. n |->
            SampleHolding(i, IF i > n - heavy THEN value ELSE 1,
                          SectorCycle[((i - 1) % sectors) + 1])]

SamplePortfolios ==
    UNION {{[keys |-> {"holdings"},
             holdings |-> SampleHoldings(n, heavy, value, sectors)] :
               heavy \in {h \in HeavyCounts : h <= n},
               value \in HeavyValues,
               sectors \in 1 .. Len(SectorCycle)} :
           n \in 0 .. MinStocks + 1}

InitSamples ==
    /\ portfolio \in SamplePortfolios
    /\ portfolio_data = EmptyFrame
    /\ caller = [portfolio |-> portfolio, portfolio_data |-> portfolio_data]
    /\ result = NoCall

CalculateConcentrationRisk ==
    /\ result' = Called("_calculate_concentration_risk", None,
                        Return(_calculate_concentration_risk(
                                   GetHoldings(portfolio))))
    /\ UNCHANGED <<portfolio, portfolio_data, caller>>

AnalyzeStockConcentration ==
    /\ result' = Called("_analyze_stock_concentration", None,
                        Return(_analyze_stock_concentration(
                                   GetHoldings(portfolio))))
    /\ UNCHANGED <<portfolio, portfolio_data, caller>>

CalculateSectorRisk ==
    /\ result' = Called("_calculate_sector_risk", None,
                        Return(_calculate_sector_risk(GetHoldings(portfolio))))
    /\ UNCHANGED <<portfolio, portfolio_data, caller>>

CalculateOverallRiskScore ==
    /\ result' = Called("_calculate_overall_risk_score", None,
                        Return(_calculate_overall_risk_score(
                                   GetHoldings(portfolio))))
    /\ UNCHANGED <<portfolio, portfolio_data, caller>>

GenerateDiversificationRecommendations ==
    /\ result' = Called("_generate_diversification_recommendations", None,
                        Return(_generate_diversification_recommendations(
                                   GetHoldings(portfolio))))
    /\ UNCHANGED <<portfolio, portfolio_data, caller>>

NextSamples ==
    \/ CalculateConcentrationRisk
    \/ AnalyzeStockConcentration
    \/ CalculateSectorRisk
    \/ CalculateOverallRiskScore
    \/ GenerateDiversificationRecommendations

SpecSamples == InitSamples /\ [][NextSamples]_vars

(***************************************************************************)
(* Value series that also fall while negative: the series of Frames with   *)
(* one more value.                                                         *)
(***************************************************************************)
WideSeriesValues == SeriesValues \cup {-2}

WideFrames ==
    UNION {{Frame(v) : v \in [1 .. n -> WideSeriesValues]} : n \in 1 .. MaxLen}

InitSeries ==
    /\ portfolio = NoPortfolio
    /\ portfolio_data \in WideFrames
    /\ caller = [portfolio |-> portfolio, portfolio_data |-> portfolio_data]
    /\ result = NoCall

\* A direct call of the helper on the frame's total_value column.
CalculateMaxDrawdown ==
    /\ result' = Called("_calculate_max_drawdown", None,
                        Return(_calculate_max_drawdown(
                                   total_value_series(portfolio_data))))
    /\ UNCHANGED <<portfolio, portfolio_data, caller>>

NextSeries ==
    \/ CalculateReturns
    \/ CalculateMaxDrawdown

SpecSeries == InitSeries /\ [][NextSeries]_vars

(***************************************************************************)
(* Long series.  The 30- and 90-sample rolling returns need series about   *)
(* as long as their windows: the series here have one sample fewer than a  *)
(* window, exactly a window, or one sample more, and are 1 throughout      *)
(* except for their first and last values.                                 *)
(***************************************************************************)
\* pct_change(30)
Window30 == 30

\* pct_change(90)
Window90 == 90

LongLengths ==
    {Window30 - 1, Window30, Window30 + 1, Window90 - 1, Window90, Window90 + 1}

LongFrames ==
    {Frame([i \in 1 .. n |-> IF i = 1 THEN first ELSE IF i = n THEN last ELSE 1]) :
        n \in LongLengths, first \in SeriesValues, last \in SeriesValues}

InitLong ==
    /\ portfolio = NoPortfolio
    /\ portfolio_data \in LongFrames
    /\ caller = [portfolio |-> portfolio, portfolio_data |-> portfolio_data]
    /\ result = NoCall

NextLong == CalculateReturns

SpecLong == InitLong /\ [][NextLong]_vars

(***************************************************************************)
(* Beta against a market.  _calculate_beta is called directly with the     *)
(* returns of the caller's series and a market return series whose         *)
(* timestamps are some of MarketTimestamps: the portfolio's second and     *)
(* third, and one the portfolio never has.                                 *)
(***************************************************************************)
MarketTimestamps == {2, 3, 9}

MarketReturnValues == {Fin(0), Fin(1)}

\* The timestamps of ts in ascending order.
RECURSIVE Ascending(_)
Ascending(ts) ==
    IF ts = {} THEN <<>>
    ELSE LET least == CHOOSE t \in ts : \A u \in ts : t <= u
         IN  <<least>> \o Ascending(ts \ {least})

MarketSeries(ts, values) ==
    [i \in 1 .. Len(Ascending(ts)) |-> [t |-> Ascending(ts)[i], v |-> values[i]]]

MarketReturns ==
    {NoSeries}
    \cup UNION {{MarketSeries(ts, values) :
                   values \in [1 .. Cardinality(ts) -> MarketReturnValues]} :
                ts \in SUBSET MarketTimestamps}

InitBeta ==
    /\ portfolio = NoPortfolio
    /\ portfolio_data \in Frames
    /\ caller = [portfolio |-> portfolio, portfolio_data |-> portfolio_data]
    /\ result = NoCall

\* portfolio_data['total_value'].pct_change().dropna()
portfolio_returns_of(df) == dropna(pct_change(total_value_series(df), 1))

CalculateBeta ==
    \E market_returns \in MarketReturns :
        /\ result' = Called("_calculate_beta", market_returns,
                            Return(_calculate_beta(
                                       portfolio_returns_of(portfolio_data),
                                       market_returns)))
        /\ UNCHANGED <<portfolio, portfolio_data, caller>>

NextBeta == CalculateBeta

SpecBeta == InitBeta /\ [][NextBeta]_vars

(***************************************************************************)
(* The sample set.  analyze_portfolio is called on every snapshot of       *)
(* Portfolios and on the portfolio that create_sample_data builds for the  *)
(* tests.                                                                  *)
(***************************************************************************)
\* utils.create_sample_data(); 'exchange' is not read by any analysis.
create_sample_data ==
    [keys |-> {"holdings", "positions", "margins", "timestamp"},
     holdings |->
         <<Holding("RELIANCE", {"market_value", "sector"},
                   25000, 100, 0, 2500, "Oil & Gas"),
           Holding("TCS", {"market_value", "sector"},
                   15000, 50, 0, -500, "IT"),
           Holding("HDFCBANK", {"market_value", "sector"},
                   12000, 75, 0, 1200, "Banking"),
           Holding("INFY", {"market_value", "sector"},
                   18000, 200, 0, 1800, "IT"),
           Holding("ITC", {"market_value", "sector"},
                   9000, 300, 0, -300, "FMCG")>>]

InitPortfolio ==
    /\ portfolio \in Portfolios \cup {create_sample_data}
    /\ portfolio_data = EmptyFrame
    /\ caller = [portfolio |-> portfolio, portfolio_data |-> portfolio_data]
    /\ result = NoCall

NextPortfolio == AnalyzePortfolio

SpecPortfolio == InitPortfolio /\ [][NextPortfolio]_vars

(***************************************************************************)
(* The claims.                                                             *)
(***************************************************************************)
Returned == result.exc = "None"

RiskEntryPoints ==
    {"analyze_portfolio_risk", "analyze_diversification",
     "RiskAnalyzer.calculate_risk_metrics"}

CallerHoldings == GetHoldings(portfolio)

\* C1: for an empty holdings list, analyze_portfolio_risk,
\* analyze_diversification and RiskAnalyzer.calculate_risk_metrics each
\* return the 'No holdings' error marker, a mapping whose only key is
\* 'error', and do not raise.
C1_EmptyHoldingsGiveErrorMarker ==
    (result.op \in RiskEntryPoints /\ CallerHoldings = <<>>)
        => /\ Returned
           /\ DOMAIN result.ret = {"error"}
           /\ result.ret = NoHoldings

C1_Witness ==
    /\ result.op = "analyze_diversification"
    /\ portfolio.keys = {"holdings"}
    /\ CallerHoldings = <<>>
    /\ result.ret = NoHoldings

AllZero(percentages) == \A x \in percentages : x = Fin(0)

\* C2: for every non-empty holdings list whose total market value is 0,
\* each risk/diversification entry point completes without a division by
\* zero and every per-holding weight or percentage it reports is 0.
C2_ZeroTotalValueIsGuarded ==
    (/\ result.op \in RiskEntryPoints
     /\ CallerHoldings # <<>>
     /\ total_market_value(CallerHoldings) = 0)
        => /\ Returned
           /\ result.op = "RiskAnalyzer.calculate_risk_metrics"
                => AllZero({result.ret.stock_risks[i].weight :
                              i \in 1 .. Len(result.ret.stock_risks)})
           /\ result.op = "analyze_portfolio_risk"
                => /\ result.ret.concentration_risk.top_5_concentration = Fin(0)
                   /\ result.ret.concentration_risk.max_single_stock_concentration
                        = Fin(0)
                   /\ AllZero({result.ret.sector_risk.sector_concentrations[x].percentage :
                                 x \in DOMAIN result.ret.sector_risk.sector_concentrations})
                   /\ result.ret.volatility_analysis.portfolio_volatility = Fin(0)
           /\ result.op = "analyze_diversification"
                => /\ AllZero({result.ret.sector_diversification[x].percentage :
                                 x \in DOMAIN result.ret.sector_diversification})
                   /\ result.ret.stock_concentration.top_1_concentration = Fin(0)
                   /\ result.ret.stock_concentration.top_3_concentration = Fin(0)
                   /\ result.ret.stock_concentration.top_5_concentration = Fin(0)

InsufficientData ==
    [calculate_returns |-> "Insufficient data for return calculation",
     risk |-> "Insufficient data for risk calculation",
     attribution |-> "Insufficient data for attribution analysis"]

\* C3: for a value series of fewer than 2 points, calculate_returns,
\* calculate_risk_metrics and calculate_performance_attribution each return
\* their insufficient-data error marker and do not raise.
C3_ShortSeriesGiveInsufficientData ==
    FrameLen(caller.portfolio_data) < 2
        => /\ result.op = "calculate_returns"
                => Returned /\ result.ret = [error |-> InsufficientData.calculate_returns]
           /\ result.op = "PerformanceAnalyzer.calculate_risk_metrics"
                => Returned /\ result.ret = [error |-> InsufficientData.risk]
           /\ result.op = "calculate_performance_attribution"
                => Returned /\ result.ret = [error |-> InsufficientData.attribution]

C3_Witness ==
    /\ FrameLen(caller.portfolio_data) = 1
    /\ result.op = "calculate_returns"
    /\ result.ret = [error |-> InsufficientData.calculate_returns]

\* C4: no analytics entry point modifies its input: after any of them
\* returns, the caller's value series (its columns and every value) and
\* holdings list are exactly what they were before the call.
C4_InputsAreNotModified ==
    /\ portfolio_data = caller.portfolio_data
    /\ portfolio = caller.portfolio

Outcome == [exc |-> result.exc, ret |-> result.ret]

IsErrorMarker(m) == "error" \in DOMAIN m

\* C6: every result is either a complete metric mapping with no 'error'
\* marker at any level or a mapping whose only key is 'error'; for
\* calculate_performance_attribution, a result without a top-level 'error'
\* key has no error marker as portfolio_metrics or risk_metrics.
C6_ErrorMarkerIsExclusive ==
    (Returned /\ result.op # "none")
        => /\ IsErrorMarker(result.ret) => DOMAIN result.ret = {"error"}
           /\ (result.op = "calculate_performance_attribution"
               /\ ~IsErrorMarker(result.ret))
                => /\ ~IsErrorMarker(result.ret.portfolio_metrics)
                   /\ ~IsErrorMarker(result.ret.risk_metrics)

\* C7: market value is resolved the same way at every call site:
\* analyze_portfolio, given holdings that carry quantity and close_price
\* but no market_value, does not raise and reports total_value as the sum
\* RiskAnalyzer._calculate_market_value resolves.
C7_MarketValueResolvedEverywhere ==
    (result.op = "analyze_portfolio" /\ "holdings" \in portfolio.keys)
        => /\ Returned
           /\ result.ret.total_value = total_market_value(portfolio.holdings)

\* C8: analyze_portfolio on a portfolio mapping with no 'holdings' key
\* treats it as having no holdings and returns total_value 0, not raising.
C8_MissingHoldingsKeyIsEmpty ==
    (result.op = "analyze_portfolio" /\ "holdings" \notin portfolio.keys)
        => Returned /\ result.ret.total_value = 0

\* C9: analyze_portfolio on an empty holdings list does not raise and
\* returns total_value 0, total_pnl 0, number_of_holdings 0,
\* total_pnl_percentage 0, positive_count 0, negative_count 0 and no
\* best or worst performer.
C9_EmptyPortfolioAnalysis ==
    (/\ result.op = "analyze_portfolio"
     /\ "holdings" \in portfolio.keys
     /\ portfolio.holdings = <<>>)
        => /\ Returned
           /\ result.ret.total_value = 0
           /\ result.ret.total_pnl = 0
           /\ result.ret.number_of_holdings = 0
           /\ result.ret.total_pnl_percentage = Fin(0)
           /\ result.ret.pnl_analysis.positive_count = 0
           /\ result.ret.pnl_analysis.negative_count = 0
           /\ result.ret.pnl_analysis.best_performer = None
           /\ result.ret.pnl_analysis.worst_performer = None

C9_Witness ==
    /\ result.op = "analyze_portfolio"
    /\ portfolio = NoPortfolio
    /\ Returned
    /\ result.ret.number_of_holdings = 0

\* sum of market_value_i ** 2 over the list
RECURSIVE SumOfSquares(_)
SumOfSquares(hs) ==
    IF hs = <<>> THEN 0
    ELSE _calculate_market_value(Head(hs)) * _calculate_market_value(Head(hs))
         + SumOfSquares(Tail(hs))

NonNegativeValues(hs) ==
    \A i \in 1 .. Len(hs) : _calculate_market_value(hs[i]) >= 0

\* C10: _calculate_hhi returns the sum of the squared weights
\* market_value_i / total_value; for a non-empty list of non-negative
\* market values with positive total it lies in (0, 1]; it is exactly 1
\* when the list is empty or the total value is 0.
C10_HhiRange ==
    result.op = "_calculate_hhi"
        => LET hs == CallerHoldings
               total == total_market_value(hs)
               hhi == result.ret
           IN  /\ Returned
               /\ (hs = <<>> \/ total = 0) => hhi = Fin(1)
               /\ (hs # <<>> /\ total # 0)
                    => hhi.num * total * total = SumOfSquares(hs) * hhi.den
               /\ (hs # <<>> /\ NonNegativeValues(hs) /\ total > 0)
                    => FLt(Fin(0), hhi) /\ FLe(hhi, Fin(1))

\* The index of a list of several holdings with positive values is
\* strictly below 1.
C10_Witness ==
    /\ result.op = "_calculate_hhi"
    /\ Len(CallerHoldings) >= 2
    /\ NonNegativeValues(CallerHoldings)
    /\ FLt(Fin(0), result.ret)
    /\ FLt(result.ret, Fin(1))

\* C11: effective_number_of_stocks is 1/HHI; for a non-empty list of
\* non-negative market values it lies between 1 and the number of
\* holdings; a single-holding portfolio has HHI 1, effective number of
\* stocks 1 and diversification score 0.
C11_EffectiveNumberOfStocks ==
    LET hs == CallerHoldings
    IN  /\ result.op = "_calculate_effective_stocks"
             => /\ FMul(result.ret, _calculate_hhi(hs)) = Fin(1)
                /\ (hs # <<>> /\ NonNegativeValues(hs))
                     => FLe(Fin(1), result.ret) /\ FLe(result.ret, Fin(Len(hs)))
                /\ Len(hs) = 1 => result.ret = Fin(1)
        /\ (result.op = "_calculate_hhi" /\ Len(hs) = 1) => result.ret = Fin(1)
        /\ (result.op = "_calculate_diversification_score" /\ Len(hs) = 1)
             => result.ret = Fin(0)

\* Two unequal positive holdings: strictly between 1 and 2 effective stocks.
C11_Witness ==
    /\ result.op = "_calculate_effective_stocks"
    /\ Len(CallerHoldings) = 2
    /\ NonNegativeValues(CallerHoldings)
    /\ FLt(Fin(1), result.ret)
    /\ FLt(result.ret, Fin(2))

\* The lists a score is compared with: every list of at most two holdings.
ComparisonLists == {l \in HoldingLists : Len(l) <= 2}

ScoreFromHhi(hs) ==
    PyMax(Fin(0), FSub(Fin(10), FMul(Fin(10), _calculate_hhi(hs))))

ScoreFollowsHhi(A, Lists) ==
    /\ result.ret = ScoreFromHhi(A)
    /\ FLe(Fin(0), result.ret) /\ FLe(result.ret, Fin(10))
    /\ \A B \in Lists :
          /\ FLe(_calculate_hhi(A), _calculate_hhi(B))
                => FLe(_calculate_diversification_score(B), result.ret)
          /\ FLe(_calculate_hhi(B), _calculate_hhi(A))
                => FLe(result.ret, _calculate_diversification_score(B))

\* C12 as stated: for every holdings list, diversification_score is
\* max(0, 10 - 10 * HHI) with HHI as _calculate_hhi computes it, lies in
\* [0, 10], and never increases when HHI increases.
C12_ScoreFollowsHhiOnEveryList ==
    result.op = "_calculate_diversification_score"
        => ScoreFollowsHhi(CallerHoldings, ComparisonLists)

\* C12 as amended: the same for holdings lists whose market values are
\* all non-negative.
C12_ScoreFollowsHhi ==
    (result.op = "_calculate_diversification_score"
     /\ NonNegativeValues(CallerHoldings))
        => ScoreFollowsHhi(CallerHoldings,
                           {B \in ComparisonLists : NonNegativeValues(B)})

C12_Witness ==
    /\ result.op = "_calculate_diversification_score"
    /\ Len(CallerHoldings) >= 2
    /\ NonNegativeValues(CallerHoldings)
    /\ FLt(Fin(0), result.ret)
    /\ FLt(result.ret, Fin(10))

MarketValuesOf(hs) == [i \in 1 .. Len(hs) |-> _calculate_market_value(hs[i])]

RemoveAt(s, i) == SubSeq(s, 1, i - 1) \o SubSeq(s, i + 1, Len(s))

\* The sum of the k largest of the values v, by repeated selection.
RECURSIVE SumOfLargest(_, _)
SumOfLargest(v, k) ==
    IF k = 0 \/ v = <<>> THEN 0
    ELSE LET i == CHOOSE i \in 1 .. Len(v) : \A j \in 1 .. Len(v) : v[j] <= v[i]
         IN  v[i] + SumOfLargest(RemoveAt(v, i), k - 1)

\* (sum of the 5 largest market values) / total_value * 100
TopFiveShare(hs) ==
    Mk(SumOfLargest(MarketValuesOf(hs), TopHoldings) * 100, total_market_value(hs))

LargestSectorShare(hs) ==
    LET sectors == {SectorOf(hs[i]) : i \in 1 .. Len(hs)}
        share(s) == Mk(total_market_value(InSector(hs, s)) * 100,
                       total_market_value(hs))
    IN  CHOOSE x \in {share(s) : s \in sectors} :
            \A s \in sectors : FLe(share(s), x)

Clamp10(x) == IF FLt(Fin(10), x) THEN Fin(10) ELSE x

\* C13: for every non-empty holdings list, risk_score is
\* 0.3 * min(10, top_5_concentration / 10)
\* + 0.3 * min(10, max_sector_concentration / 10)
\* + 0.4 * min(10, weighted volatility * 40), the weighted volatility being
\* the value-weighted average of the 0.25 placeholder, and lies in [0, 10].
C13_RiskScoreBlend ==
    (result.op = "_calculate_overall_risk_score" /\ CallerHoldings # <<>>)
        => LET hs == CallerHoldings
               positive == total_market_value(hs) > 0
               top_5 == IF positive THEN TopFiveShare(hs) ELSE Fin(0)
               max_sector == IF positive THEN LargestSectorShare(hs) ELSE Fin(0)
               volatility == IF positive THEN Mk(1, 4) ELSE Fin(0)
           IN  /\ result.ret =
                     FAdd(FAdd(FMul(Mk(3, 10), Clamp10(FDiv(top_5, Fin(10)))),
                               FMul(Mk(3, 10), Clamp10(FDiv(max_sector, Fin(10))))),
                          FMul(Mk(4, 10), Clamp10(FMul(volatility, Fin(40)))))
               /\ FLe(Fin(0), result.ret) /\ FLe(result.ret, Fin(10))

\* A snapshot of more than five holdings in several sectors: both
\* concentration components are below their cap.
C13_Witness ==
    /\ result.op = "_calculate_overall_risk_score"
    /\ Len(CallerHoldings) > TopHoldings
    /\ FLt(Fin(4), result.ret)
    /\ FLt(result.ret, Fin(7))

Findings ==
    <<"Consider reducing concentration in top 5 holdings",
      "Consider diversifying across more sectors",
      "Consider increasing the number of stocks for better diversification",
      "Portfolio is highly concentrated - consider more diversification">>

WellDiversified == "Portfolio appears well-diversified"

\* Which of the four checks trigger on a holdings list, computed from the
\* holdings themselves.
Triggered(hs) ==
    LET total == total_market_value(hs)
        positive == hs # <<>> /\ total > 0
        hhi == IF hs = <<>> \/ total = 0 THEN Fin(1)
               ELSE Mk(SumOfSquares(hs), total * total)
    IN  <<positive /\ FLt(Fin(70), TopFiveShare(hs)),
          positive /\ FLt(Fin(40), LargestSectorShare(hs)),
          Len(hs) < MinStocks,
          FLt(Mk(1, 4), hhi)>>

\* The findings whose check triggered, in the order of the checks.
RECURSIVE FindingsFrom(_, _)
FindingsFrom(trigger, k) ==
    IF k > Len(Findings) THEN <<>>
    ELSE (IF trigger[k] THEN <<Findings[k]>> ELSE <<>>)
         \o FindingsFrom(trigger, k + 1)

\* C14: the recommendations are one finding per triggered check, every
\* triggered one, in the order top-5 concentration > 70, largest sector
\* > 40, fewer than 10 holdings, HHI > 0.25; the single well-diversified
\* affirmation exactly when no check triggers; never an empty list.
C14_AllTriggeredFindingsInOrder ==
    result.op = "_generate_diversification_recommendations"
        => LET trigger == Triggered(CallerHoldings)
               none == \A k \in 1 .. Len(Findings) : ~trigger[k]
           IN  /\ result.ret # <<>>
               /\ ~none => result.ret = FindingsFrom(trigger, 1)
               /\ none <=> result.ret = <<WellDiversified>>

\* Ten or more evenly spread holdings: no check triggers.
C14_Witness ==
    /\ result.op = "_generate_diversification_recommendations"
    /\ Len(CallerHoldings) >= MinStocks
    /\ result.ret = <<WellDiversified>>

\* C15: concentration_risk_level follows top_5_concentration with strict
\* thresholds: High above 80, Medium above 60 and up to 80, Low otherwise;
\* exactly 80 is Medium and exactly 60 is Low.
C15_ConcentrationRiskLevel ==
    (result.op = "_calculate_concentration_risk" /\ CallerHoldings # <<>>)
        => LET top_5 == result.ret.top_5_concentration
               level == result.ret.concentration_risk_level
           IN  /\ level = "High" <=> FLt(Fin(80), top_5)
               /\ level = "Medium" <=> (FLt(Fin(60), top_5) /\ FLe(top_5, Fin(80)))
               /\ level = "Low" <=> FLe(top_5, Fin(60))
               /\ top_5 = Fin(80) => level = "Medium"
               /\ top_5 = Fin(60) => level = "Low"

\* The five largest holdings are exactly 80 percent of the snapshot.
C15_Witness ==
    /\ result.op = "_calculate_concentration_risk"
    /\ Len(CallerHoldings) > TopHoldings
    /\ result.ret.top_5_concentration = Fin(80)
    /\ result.ret.concentration_risk_level = "Medium"

\* C16: _calculate_sector_risk groups the holdings by sector (those with
\* no sector under 'Unknown'), reports the largest per-sector percentage
\* as max_sector_concentration, and classifies it with strict thresholds:
\* High above 50, Medium above 30 and up to 50, Low otherwise.
C16_SectorRisk ==
    result.op = "_calculate_sector_risk"
        => LET hs == CallerHoldings
               by_sector == result.ret.sector_concentrations
               largest == result.ret.max_sector_concentration
               level == result.ret.sector_risk_level
               members(s) ==
                   {i \in 1 .. Len(hs) :
                      IF "sector" \in hs[i].keys THEN hs[i].sector = s
                      ELSE s = "Unknown"}
           IN  /\ \A i \in 1 .. Len(hs) : \E s \in DOMAIN by_sector : i \in members(s)
               /\ \A s \in DOMAIN by_sector :
                     /\ by_sector[s].count = Cardinality(members(s))
                     /\ by_sector[s].count > 0
                     /\ by_sector[s].total_value
                          = SumSeq([k \in 1 .. Len(InSector(hs, s)) |->
                                      _calculate_market_value(InSector(hs, s)[k])])
                     /\ FLe(by_sector[s].percentage, largest)
               /\ hs # <<>> => \E s \in DOMAIN by_sector :
                                  by_sector[s].percentage = largest
               /\ level = "High" <=> FLt(Fin(50), largest)
               /\ level = "Medium" <=> (FLt(Fin(30), largest) /\ FLe(largest, Fin(50)))
               /\ level = "Low" <=> FLe(largest, Fin(30))

\* Two sectors of equal value, one of them 'Unknown': exactly 50 percent.
C16_Witness ==
    /\ result.op = "_calculate_sector_risk"
    /\ "Unknown" \in DOMAIN result.ret.sector_concentrations
    /\ result.ret.max_sector_concentration = Fin(50)
    /\ result.ret.sector_risk_level = "Medium"

SumOfCounts(by_sector) ==
    LET RECURSIVE Go(_)
        Go(D) == IF D = {} THEN 0
                 ELSE LET d == CHOOSE d \in D : TRUE
                      IN  by_sector[d].count + Go(D \ {d})
    IN  Go(DOMAIN by_sector)

SumOfPercentages(by_sector) ==
    LET RECURSIVE Go(_)
        Go(D) == IF D = {} THEN Fin(0)
                 ELSE LET d == CHOOSE d \in D : TRUE
                      IN  FAdd(by_sector[d].percentage, Go(D \ {d}))
    IN  Go(DOMAIN by_sector)

SumOfTotalValues(by_sector) ==
    LET RECURSIVE Go(_)
        Go(D) == IF D = {} THEN 0
                 ELSE LET d == CHOOSE d \in D : TRUE
                      IN  by_sector[d].total_value + Go(D \ {d})
    IN  Go(DOMAIN by_sector)

SomePositiveValue(hs) ==
    \E i \in 1 .. Len(hs) : _calculate_market_value(hs[i]) > 0

SectorAnalyses == {"analyze_portfolio_risk", "analyze_diversification",
                   "analyze_portfolio"}

\* The per-sector mapping inside the result of the last call.
SectorsReported ==
    IF result.op = "analyze_portfolio_risk"
    THEN result.ret.sector_risk.sector_concentrations
    ELSE IF result.op = "analyze_diversification"
    THEN result.ret.sector_diversification
    ELSE result.ret.sector_analysis

\* C17: for every non-empty holdings list with at least one positive
\* market value, each sector analysis (_calculate_sector_risk in
\* analyze_portfolio_risk, _analyze_sector_diversification in
\* analyze_diversification, _analyze_sectors in analyze_portfolio) reports
\* percentages that sum to 100, counts that sum to the number of holdings
\* and total values that sum to the portfolio's total value.
C17_SectorSums ==
    (/\ result.op \in SectorAnalyses
     /\ "holdings" \in portfolio.keys
     /\ SomePositiveValue(CallerHoldings))
        => /\ Returned
           /\ SumOfPercentages(SectorsReported) = Fin(100)
           /\ SumOfCounts(SectorsReported) = Len(CallerHoldings)
           /\ SumOfTotalValues(SectorsReported)
                = total_market_value(CallerHoldings)

\* What C18 says of one concentration result: the top-5 share is the sum of
\* the five largest market values over the total, times 100, and is 100
\* for at most five holdings of positive total value.
TopFiveIsShareOfLargest(hs, top_5) ==
    /\ total_market_value(hs) > 0 => top_5 = TopFiveShare(hs)
    /\ (Len(hs) <= TopHoldings /\ total_market_value(hs) > 0) => top_5 = Fin(100)

ConcentrationsOrdered(ret) ==
    /\ FLe(Fin(0), ret.max_single_stock_concentration)
    /\ FLe(ret.max_single_stock_concentration, ret.top_5_concentration)
    /\ FLe(ret.top_5_concentration, Fin(100))

\* C18 as stated: top_5_concentration is the share of the five largest
\* holdings, 100 for at most five holdings of positive total value, and for
\* every holdings list 0 <= max_single_stock_concentration <=
\* top_5_concentration <= 100.
C18_TopFiveOnEveryList ==
    LET hs == CallerHoldings
    IN  /\ (result.op = "_calculate_concentration_risk" /\ hs # <<>>)
             => /\ TopFiveIsShareOfLargest(hs, result.ret.top_5_concentration)
                /\ ConcentrationsOrdered(result.ret)
        /\ (result.op = "_analyze_stock_concentration" /\ hs # <<>>)
             => TopFiveIsShareOfLargest(hs, result.ret.top_5_concentration)

\* C18 as amended: the ordering and the bound of 100 for holdings lists
\* whose market values are all non-negative.
C18_TopFive ==
    LET hs == CallerHoldings
    IN  /\ (result.op = "_calculate_concentration_risk" /\ hs # <<>>)
             => /\ TopFiveIsShareOfLargest(hs, result.ret.top_5_concentration)
                /\ NonNegativeValues(hs) => ConcentrationsOrdered(result.ret)
        /\ (result.op = "_analyze_stock_concentration" /\ hs # <<>>)
             => TopFiveIsShareOfLargest(hs, result.ret.top_5_concentration)

\* More than five holdings, the largest at the end of the list: the five
\* largest hold less than everything and more than the largest alone.
C18_Witness ==
    /\ result.op = "_calculate_concentration_risk"
    /\ Len(CallerHoldings) > TopHoldings
    /\ NonNegativeValues(CallerHoldings)
    /\ FLt(result.ret.max_single_stock_concentration,
           result.ret.top_5_concentration)
    /\ FLt(result.ret.top_5_concentration, Fin(100))
    /\ _calculate_market_value(CallerHoldings[1])
         < _calculate_market_value(CallerHoldings[Len(CallerHoldings)])

NonDecreasing(values) ==
    \A i \in 1 .. Len(values) - 1 : values[i] <= values[i + 1]

\* The max_drawdown the last call reported, if it reported one.
ReportsMaxDrawdown ==
    /\ Returned
    /\ \/ result.op = "_calculate_max_drawdown"
       \/ result.op = "calculate_returns" /\ "max_drawdown" \in DOMAIN result.ret

MaxDrawdownReported ==
    IF result.op = "_calculate_max_drawdown" THEN result.ret
    ELSE result.ret.max_drawdown

\* C19: for every value series, max_drawdown, the least of
\* (value - running maximum) / running maximum, is at most 0, and is 0
\* if and only if the series is non-decreasing.
C19_MaxDrawdownSign ==
    ReportsMaxDrawdown
        => /\ FLe(MaxDrawdownReported, Fin(0))
           /\ MaxDrawdownReported = Fin(0)
                <=> NonDecreasing(caller.portfolio_data.total_value)

\* The returns derived from the caller's value series.
DerivedReturns ==
    Values(dropna(pct_change(total_value_series(caller.portfolio_data), 1)))

AllEqual(values) ==
    \A i, j \in 1 .. Len(values) : values[i] = values[j]

\* C20: for every value series of at least 2 points whose derived returns
\* are all equal, the sharpe_ratio calculate_returns reports is exactly 0,
\* with no division by zero and no undefined value.
C20_ZeroVarianceSharpeIsZero ==
    (/\ result.op = "calculate_returns"
     /\ FrameLen(caller.portfolio_data) >= 2
     /\ DerivedReturns # <<>>
     /\ AllEqual(DerivedReturns))
        => /\ Returned
           /\ result.ret.sharpe_ratio = Zero

\* C21: rolling_30d_return (rolling_90d_return) reported by calculate_returns
\* is the undefined sentinel exactly when the series has fewer than 30 (90)
\* samples.
ReportsRollingReturns ==
    /\ result.op = "calculate_returns"
    /\ Returned
    /\ "rolling_30d_return" \in DOMAIN result.ret

SamplesGiven == Len(caller.portfolio_data.total_value)

C21_RollingReturnUndefinedExactlyWhenShort ==
    ReportsRollingReturns =>
        /\ IsNaN(result.ret.rolling_30d_return) <=> SamplesGiven < Window30
        /\ IsNaN(result.ret.rolling_90d_return) <=> SamplesGiven < Window90

\* C22: _calculate_beta returns 1.0 when no market series is supplied, when
\* the two return series share fewer than 2 timestamps, or when the market
\* variance over the common timestamps is 0; in every other case it returns
\* cov(portfolio, market) / var(market) over the common timestamps only.
BetaCalled == result.op = "_calculate_beta" /\ Returned

PortfolioReturnsGiven == portfolio_returns_of(caller.portfolio_data)

MarketReturnsGiven == result.arg

TimestampsOf(s) == {s[i].t : i \in 1 .. Len(s)}

CommonTimestamps ==
    TimestampsOf(PortfolioReturnsGiven) \cap TimestampsOf(MarketReturnsGiven)

OnCommonTimestamps(s) == SelectSeq(s, LAMBDA e : e.t \in CommonTimestamps)

\* cov / var with one estimator for both: the divisors cancel.
CovOverVar(x, y) == FDiv(CoMoment(x, y), CoMoment(y, y))

BetaFallsBack ==
    \/ MarketReturnsGiven = NoSeries
    \/ Cardinality(CommonTimestamps) < 2
    \/ FEq(CoMoment(OnCommonTimestamps(MarketReturnsGiven),
                    OnCommonTimestamps(MarketReturnsGiven)), Fin(0))

C22_BetaFallbacksAndValue ==
    BetaCalled =>
        IF BetaFallsBack THEN result.ret = One
        ELSE result.ret =
                 Surd(CovOverVar(OnCommonTimestamps(PortfolioReturnsGiven),
                                 OnCommonTimestamps(MarketReturnsGiven)),
                      Fin(1))

\* C23: calculate_performance_attribution includes benchmark_comparison if
\* and only if a benchmark is supplied and the portfolio and benchmark return
\* series share at least one timestamp, and the section's metrics are
\* computed over the shared timestamps only.
AttributionCalled ==
    result.op = "calculate_performance_attribution" /\ Returned

BenchmarkSupplied == result.arg # None

BenchmarkReturnsGiven ==
    IF BenchmarkSupplied
    THEN dropna(pct_change(value_series(result.arg), 1))
    ELSE <<>>

SharedTimestamps ==
    TimestampsOf(PortfolioReturnsGiven) \cap TimestampsOf(BenchmarkReturnsGiven)

ValueAt(s, t) == s[CHOOSE i \in 1 .. Len(s) : s[i].t = t].v

ExcessOnShared ==
    [i \in 1 .. Cardinality(SharedTimestamps) |->
        LET t == Ascending(SharedTimestamps)[i]
        IN  [t |-> t,
             v |-> FSub(ValueAt(PortfolioReturnsGiven, t),
                        ValueAt(BenchmarkReturnsGiven, t))]]

HasBenchmarkComparison == "benchmark_comparison" \in DOMAIN result.ret

C23_BenchmarkComparisonOnSharedTimestamps ==
    AttributionCalled =>
        /\ HasBenchmarkComparison <=> (BenchmarkSupplied /\ SharedTimestamps # {})
        /\ HasBenchmarkComparison =>
               /\ result.ret.benchmark_comparison.excess_return
                      = FMul(mean(ExcessOnShared), Fin(252))
               /\ result.ret.benchmark_comparison.tracking_error
                      = annualized_std(ExcessOnShared)

\* A section is emitted while a benchmark return has no portfolio return
\* at its timestamp.
C23_Witness ==
    /\ AttributionCalled
    /\ HasBenchmarkComparison
    /\ TimestampsOf(BenchmarkReturnsGiven) \ SharedTimestamps # {}

\* C24: whenever calculate_performance_attribution emits a
\* benchmark_comparison section, its tracking_error, information_ratio and
\* correlation are defined finite numbers.
FiniteTerm(x) == IsFinite(x.coef) /\ IsFinite(x.sqrt_of)

C24_BenchmarkMetricsAreFinite ==
    (AttributionCalled /\ HasBenchmarkComparison) =>
        /\ FiniteTerm(result.ret.benchmark_comparison.tracking_error)
        /\ FiniteTerm(result.ret.benchmark_comparison.information_ratio)
        /\ FiniteTerm(result.ret.benchmark_comparison.correlation)

\* C25: calculate_rolling_metrics with window w returns one row for each
\* input timestamp from the w-th on, in order, with no undefined entry in
\* it, and no row for an earlier timestamp; it returns an empty result when
\* the series has fewer than w points.
RollingCalled == result.op = "calculate_rolling_metrics" /\ Returned

WindowGiven == result.arg.window

RowsFromWindowOn ==
    SubSeq(caller.portfolio_data.index, WindowGiven, SamplesGiven)

C25_RollingRowsOnlyForFullWindows ==
    RollingCalled =>
        IF SamplesGiven < WindowGiven THEN result.ret.index = <<>>
        ELSE /\ result.ret.index = RowsFromWindowOn
             /\ \A i \in 1 .. Len(result.ret.index) :
                    /\ ~IsNaN(result.ret.rolling_return[i])
                    /\ ~IsNaN(result.ret.rolling_drawdown[i])

\* C26: for every value series of at least 2 points, downside_deviation
\* reported by calculate_risk_metrics is 0 when no return is below zero and
\* otherwise the annualized standard deviation of the returns below zero,
\* a defined number for every count of negative returns from 1 upward.
ReportsRiskMetrics ==
    /\ result.op = "PerformanceAnalyzer.calculate_risk_metrics"
    /\ Returned
    /\ ~IsErrorMarker(result.ret)

ReturnsBelowZero ==
    SelectSeq(PortfolioReturnsGiven, LAMBDA e : FLt(e.v, Fin(0)))

C26_DownsideDeviationIsDefined ==
    (ReportsRiskMetrics /\ SamplesGiven >= 2) =>
        IF ReturnsBelowZero = <<>>
        THEN result.ret.downside_deviation = Zero
        ELSE /\ result.ret.downside_deviation = annualized_std(ReturnsBelowZero)
             /\ FiniteTerm(result.ret.downside_deviation)

\* C27: for every value series of at least 2 points that contains a zero
\* value, calculate_returns does not raise, and the total_return and
\* max_drawdown it reports (or the error marker it returns instead) are
\* neither infinite nor undefined.
ContainsZero ==
    \E i \in 1 .. SamplesGiven : caller.portfolio_data.total_value[i] = 0

C27_ZeroValuesGiveNoInfiniteMetric ==
    (result.op = "calculate_returns" /\ SamplesGiven >= 2 /\ ContainsZero) =>
        /\ Returned
        /\ \/ IsErrorMarker(result.ret)
           \/ /\ IsFinite(result.ret.total_return)
              /\ IsFinite(result.ret.max_drawdown)

\* C28: for every holdings list where each holding carries market_value and
\* pnl, analyze_portfolio reports total_value = sum of the market values,
\* total_pnl = sum of pnl, number_of_holdings = the list's length,
\* positive_count = the number of holdings with pnl > 0 and negative_count =
\* the number with pnl < 0, so that the two counts add up to at most the
\* number of holdings; for the 5-holding sample set these are 79000, 4700,
\* 5, 3 and 2.
HoldingsGiven == caller.portfolio.holdings

MarketValueFields ==
    [i \in 1 .. Len(HoldingsGiven) |-> HoldingsGiven[i].market_value]

PnlFields == [i \in 1 .. Len(HoldingsGiven) |-> HoldingsGiven[i].pnl]

GainCount == Cardinality({i \in 1 .. Len(HoldingsGiven) : PnlFields[i] > 0})

LossCount == Cardinality({i \in 1 .. Len(HoldingsGiven) : PnlFields[i] < 0})

C28_PortfolioTotals ==
    (/\ result.op = "analyze_portfolio"
     /\ "holdings" \in caller.portfolio.keys
     /\ HasMarketValue(HoldingsGiven))
        => /\ Returned
           /\ result.ret.total_value = SumSeq(MarketValueFields)
           /\ result.ret.total_pnl = SumSeq(PnlFields)
           /\ result.ret.number_of_holdings = Len(HoldingsGiven)
           /\ result.ret.pnl_analysis.positive_count = GainCount
           /\ result.ret.pnl_analysis.negative_count = LossCount
           /\ result.ret.pnl_analysis.positive_count
                  + result.ret.pnl_analysis.negative_count
                  <= result.ret.number_of_holdings
           /\ caller.portfolio = create_sample_data
                  => /\ result.ret.total_value = 79000
                     /\ result.ret.total_pnl = 4700
                     /\ result.ret.number_of_holdings = 5
                     /\ result.ret.pnl_analysis.positive_count = 3
                     /\ result.ret.pnl_analysis.negative_count = 2

C28_Witness ==
    /\ result.op = "analyze_portfolio"
    /\ caller.portfolio = create_sample_data
    /\ Returned
    /\ result.ret.total_value = 79000

\* C29: when the market return series is identical to the portfolio return
\* series, with at least 2 timestamps and a variance that is not zero,
\* _calculate_beta returns exactly 1.0.
MarketIsThePortfolio ==
    /\ MarketReturnsGiven = PortfolioReturnsGiven
    /\ Len(PortfolioReturnsGiven) >= 2
    /\ ~FEq(CoMoment(PortfolioReturnsGiven, PortfolioReturnsGiven), Fin(0))

C29_BetaOfASeriesAgainstItselfIsOne ==
    (BetaCalled /\ MarketIsThePortfolio) => result.ret = One

\* C30: in RiskAnalyzer.calculate_risk_metrics each of the three
\* tail_risk_level outcomes is reachable: whichever level is reported for the
\* caller's list, each of the other two of 'High', 'Medium' and 'Low' is
\* reported for some non-empty holdings list of positive total value.
TailRiskLevels == {"High", "Medium", "Low"}

ReportsTailRisk ==
    /\ result.op = "RiskAnalyzer.calculate_risk_metrics"
    /\ Returned
    /\ ~IsErrorMarker(result.ret)

TailRiskLevelOf(hs) ==
    risk_calculate_risk_metrics(hs).ret.tail_risk.tail_risk_level

ListsOfPositiveTotal ==
    {GetHoldings(p) : p \in {q \in Portfolios :
                                /\ GetHoldings(q) # <<>>
                                /\ total_market_value(GetHoldings(q)) > 0}}

C30_EveryTailRiskLevelIsReachable ==
    ReportsTailRisk =>
        \A level \in TailRiskLevels \ {result.ret.tail_risk.tail_risk_level} :
            \E hs \in ListsOfPositiveTotal : TailRiskLevelOf(hs) = level

====
